---- MODULE Spec2Model ----
(***************************************************************************)
(* Model of the Upstox master bot (main.py): the market-profile builder,   *)
(* the quote poller, the option-chain selector, and the alert cooldown /   *)
(* gamma-blast state machine of the signal engine.                         *)
(*                                                                         *)
(* Prices and volumes are integers.  An optional number is a sequence:     *)
(* None is <<>> and the number x is <<x>>.                                 *)
(* A Python dict is a sequence of entries in insertion order, which is the *)
(* order Python iterates it in.                                            *)
(***************************************************************************)
EXTENDS Integers, Sequences, FiniteSets, TLC

VARIABLES
    candles,        \* the candle batch handed to build_market_profile
    mp_pc,          \* "input" while the batch is received, "done" after the call
    vol_at_price,   \* build_market_profile's dict, as it stands when the call ends
    total_vol,      \* build_market_profile's accumulated volume
    va_prices,      \* build_market_profile's accepted value-area buckets
    mp,             \* what build_market_profile returned (or that it raised)
    contracts,      \* the contract list handed to pick_atm_plus_minus
    sel_pc,         \* "input" while the list is received, "done" after the call
    atm_strike,     \* pick_atm_plus_minus's argument
    strikes_each_side, \* pick_atm_plus_minus's argument
    atm_idx,        \* per option type: the index of the window's centre (Python, from 0)
    chosen,         \* per option type: the strikes selected
    results,        \* pick_atm_plus_minus's list of pairs when the call ends
    sel_ret,        \* what pick_atm_plus_minus returned to its caller
    fq_keys,        \* the instrument keys handed to fetch_quotes
    fq_data,        \* the "data" object of the upstream's answer, in its order
    fq_shape,       \* the shape of the upstream's answer
    fq_pc,          \* "input" before the call, "done" after it
    fq_ret,         \* what fetch_quotes returned (or that it raised)
    now,            \* the clock of the polling loop, in hundredths of a second
    polls,          \* the polling cycles run so far
    tick_price,     \* per option instrument: the price of its latest tick
    eng_state,      \* per option instrument: "NORMAL" or "ARMED"
    hft_time,       \* per option instrument: when its HFT footprint was recorded
    base_price,     \* per option instrument: the base price recorded with it
    last_alert,     \* AlertState: per (instrument, kind) the last dispatch time
    fired,          \* the (instrument, kind) signals that fired in the latest cycle
    dispatched      \* those of them the Alert Sink dispatched

mpVars == <<candles, mp_pc, vol_at_price, total_vol, va_prices, mp>>
selVars == <<contracts, sel_pc, atm_strike, strikes_each_side, atm_idx, chosen,
             results, sel_ret>>
fqVars == <<fq_keys, fq_data, fq_shape, fq_pc, fq_ret>>
engVars == <<now, polls, tick_price, eng_state, hft_time, base_price, last_alert,
             fired, dispatched>>
vars == <<mpVars, selVars, fqVars, engVars>>

None == <<>>
Some(x) == <<x>>
Value(o) == o[1]

\* ------------------------------------------------------------------------
\* Bounds of the model
\* ------------------------------------------------------------------------
MaxCandles == 4
MaxContracts == 4
MaxSide == 1
MaxQuotes == 2
MaxPolls == 4

\* ------------------------------------------------------------------------
\* Program constants
\* ------------------------------------------------------------------------
PRICE_BUCKET_SIZE == 10
MIN_TICK_INTERVAL_CS == 35          \* MIN_TICK_INTERVAL_SEC = 0.35, in 1/100 s
PRICE_MOVE_SMALL_PCT_X100 == 20     \* PRICE_MOVE_SMALL_PCT = 0.20, in 1/100 %
PRICE_MOVE_GAMMA_PCT_X100 == 100    \* PRICE_MOVE_GAMMA_PCT = 1.00, in 1/100 %
RECENT_HFT_SEC == 30
ALERT_COOLDOWN_SEC == 90

\* ------------------------------------------------------------------------
\* Generic helpers
\* ------------------------------------------------------------------------
Max2(a, b) == IF a >= b THEN a ELSE b
Min2(a, b) == IF a <= b THEN a ELSE b

SetMax(S) == CHOOSE x \in S : \A y \in S : y <= x
SetMin(S) == CHOOSE x \in S : \A y \in S : x <= y

\* Python's round(n / d) for integers n and d > 0: to the nearest integer,
\* a half going to the even neighbour.
PyRound(n, d) ==
    LET q == n \div d
        r == n % d
    IN  IF 2 * r < d THEN q
        ELSE IF 2 * r > d THEN q + 1
        ELSE IF q % 2 = 0 THEN q ELSE q + 1

\* ------------------------------------------------------------------------
\* build_market_profile
\* ------------------------------------------------------------------------

\* A candle row [ts, o, h, l, close, vol, ...]: the number of fields it has
\* and the fields the builder reads.
Row(n, h, l, close, vol) == [len |-> n, h |-> h, l |-> l, close |-> close, vol |-> vol]

ShortRow == Row(5, None, None, None, 0)
LongRow  == Row(7, None, None, Some(105), 3)

\* The rows a batch is drawn from.  With a bucket size of 10 the closes fall
\* into the buckets 90 (94), 100 (95 and 105, both halves), 110 (106), 120 (115).
CandleRows ==
    {ShortRow, LongRow}
    \cup { Row(6, None, None, None, 7) }
    \cup { Row(6, Some(c + 5), Some(c - 5), Some(c), 3) : c \in {94, 95, 106, 115} }
    \cup { Row(6, Some(c + 5), Some(c - 5), Some(c), 7) : c \in {94, 105, 106} }
    \cup { Row(6, Some(100), None, Some(95), 0), Row(6, None, Some(100), Some(115), 0) }

\* bucket = round(close / bucket_size) * bucket_size
Bucket(close, bucket_size) == PyRound(close, bucket_size) * bucket_size

\* index of `price` in the dict, 0 when it is no key
KeyIndex(d, price) ==
    IF \E i \in 1..Len(d) : d[i].price = price
    THEN CHOOSE i \in 1..Len(d) : d[i].price = price
    ELSE 0

\* vol_at_price[bucket] = vol_at_price.get(bucket, 0) + vol
DictAdd(d, price, vol) ==
    LET i == KeyIndex(d, price)
    IN  IF i = 0 THEN Append(d, [price |-> price, vol |-> vol])
        ELSE [d EXCEPT ![i].vol = @ + vol]

EmptyAcc == [vap |-> <<>>, total |-> 0, high |-> None, low |-> None, raised |-> FALSE]

\* AggregateStep without its `len(c) < 6` guard: a short row fails to unpack
AggregateStepNoLenGuard(acc, c, bucket_size) ==
    IF acc.raised THEN acc
    ELSE IF c.len # 6 THEN [acc EXCEPT !.raised = TRUE]
    ELSE IF c.close = None THEN acc
    ELSE [vap    |-> DictAdd(acc.vap, Bucket(Value(c.close), bucket_size), c.vol),
          total  |-> acc.total + c.vol,
          high   |-> IF c.h = None THEN acc.high
                     ELSE IF acc.high = None THEN c.h
                     ELSE Some(Max2(Value(acc.high), Value(c.h))),
          low    |-> IF c.l = None THEN acc.low
                     ELSE IF acc.low = None THEN c.l
                     ELSE Some(Min2(Value(acc.low), Value(c.l))),
          raised |-> FALSE]

\* one iteration of `for c in candles`
AggregateStep(acc, c, bucket_size) ==
    IF acc.raised THEN acc
    ELSE IF c.len < 6 THEN acc
    ELSE IF c.len > 6 THEN [acc EXCEPT !.raised = TRUE]
    ELSE IF c.close = None THEN acc
    ELSE [vap    |-> DictAdd(acc.vap, Bucket(Value(c.close), bucket_size), c.vol),
          total  |-> acc.total + c.vol,
          high   |-> IF c.h = None THEN acc.high
                     ELSE IF acc.high = None THEN c.h
                     ELSE Some(Max2(Value(acc.high), Value(c.h))),
          low    |-> IF c.l = None THEN acc.low
                     ELSE IF acc.low = None THEN c.l
                     ELSE Some(Min2(Value(acc.low), Value(c.l))),
          raised |-> FALSE]

RECURSIVE Aggregate(_, _, _)
Aggregate(cs, acc, bucket_size) ==
    IF cs = <<>> THEN acc
    ELSE Aggregate(Tail(cs), AggregateStep(acc, Head(cs), bucket_size), bucket_size)

\* PocPrice taking the last key of maximal volume instead of the first
PocPriceLast(d) ==
    LET i == CHOOSE i \in 1..Len(d) :
                 /\ \A j \in 1..Len(d) : d[j].vol <= d[i].vol
                 /\ \A j \in (i + 1)..Len(d) : d[j].vol < d[i].vol
    IN  d[i].price

\* max(vol_at_price, key=...): the first key, in iteration order, of maximal volume
PocPrice(d) ==
    LET i == CHOOSE i \in 1..Len(d) :
                 /\ \A j \in 1..Len(d) : d[j].vol <= d[i].vol
                 /\ \A j \in 1..(i - 1) : d[j].vol < d[i].vol
    IN  d[i].price

\* sorted(items, key=volume, reverse=True): stable, so entries of equal volume
\* keep their iteration order
RECURSIVE InsertByVol(_, _)
InsertByVol(s, e) ==
    IF s = <<>> THEN <<e>>
    ELSE IF Head(s).vol >= e.vol THEN <<Head(s)>> \o InsertByVol(Tail(s), e)
    ELSE <<e>> \o s

RECURSIVE SortedByVol(_)
SortedByVol(d) ==
    IF d = <<>> THEN <<>>
    ELSE InsertByVol(SortedByVol(SubSeq(d, 1, Len(d) - 1)), d[Len(d)])

\* ReachedTarget with a strict comparison
ReachedTargetStrict(cum, total) == 10 * cum > 7 * total

\* cum >= target, target = total_vol * 0.7, for integer volumes
ReachedTarget(cum, total) == 10 * cum >= 7 * total

\* the value-area loop: accept entries until the accumulated volume reaches
\* the target
RECURSIVE ValueArea(_, _, _, _)
ValueArea(s, cum, acc, total) ==
    IF s = <<>> THEN acc
    ELSE LET c2 == cum + Head(s).vol
             a2 == acc \cup {Head(s).price}
         IN  IF ReachedTarget(c2, total) THEN a2
             ELSE ValueArea(Tail(s), c2, a2, total)

NoProfile == [kind |-> "none"]
Raised    == [kind |-> "raise"]

\* the locals and the result of one call
BuildMarketProfile(cs, bucket_size) ==
    LET acc == Aggregate(cs, EmptyAcc, bucket_size)
        va  == ValueArea(SortedByVol(acc.vap), 0, {}, acc.total)
    IN  IF cs = <<>> THEN
            [vap |-> <<>>, total |-> 0, va |-> {}, ret |-> NoProfile]
        ELSE IF acc.raised THEN
            [vap |-> <<>>, total |-> 0, va |-> {}, ret |-> Raised]
        ELSE IF acc.vap = <<>> \/ acc.total <= 0 THEN
            [vap |-> acc.vap, total |-> acc.total, va |-> {}, ret |-> NoProfile]
        ELSE
            [vap |-> acc.vap, total |-> acc.total, va |-> va,
             ret |-> [kind |-> "profile",
                      poc  |-> PocPrice(acc.vap),
                      vah  |-> SetMax(va),
                      val  |-> SetMin(va),
                      high |-> acc.high,
                      low  |-> acc.low]]

MPIdle ==
    /\ candles = <<>>
    /\ mp_pc = "input"
    /\ vol_at_price = <<>>
    /\ total_vol = 0
    /\ va_prices = {}
    /\ mp = NoProfile

\* fetch_intraday_candles delivers one more row of the batch
ReceiveCandle ==
    /\ mp_pc = "input"
    /\ Len(candles) < MaxCandles
    /\ \E c \in CandleRows : candles' = Append(candles, c)
    /\ UNCHANGED <<mp_pc, vol_at_price, total_vol, va_prices, mp>>
    /\ UNCHANGED <<selVars, fqVars, engVars>>

\* build_market_profile(candles, PRICE_BUCKET_SIZE)
CallBuildMarketProfile ==
    /\ mp_pc = "input"
    /\ LET r == BuildMarketProfile(candles, PRICE_BUCKET_SIZE)
       IN  /\ vol_at_price' = r.vap
           /\ total_vol' = r.total
           /\ va_prices' = r.va
           /\ mp' = r.ret
    /\ mp_pc' = "done"
    /\ UNCHANGED candles
    /\ UNCHANGED <<selVars, fqVars, engVars>>


\* ------------------------------------------------------------------------
\* pick_atm_plus_minus
\* ------------------------------------------------------------------------

OptTypes == <<"CE", "PE">>

\* A strike_price is a number of halves (301 is 150.5), as the contract API
\* gives it as a float; int() cuts the fraction off.
PyInt(halves) == halves \div 2

\* The contract records a list is drawn from; a record's instrument_key is
\* its position in the list and its trading_symbol goes with the key.
ContractKinds ==
    { <<"CE", k>> : k \in {200, 300, 301, 400, 500} }
    \cup { <<"PE", k>> : k \in {200, 301, 400} }
    \cup { <<"FUT", 300>> }

Contract(kind, key) ==
    [instrument_type |-> kind[1], strike_price |-> kind[2],
     instrument_key |-> key, trading_symbol |-> 1000 + key]

AtmStrikes == {50, 150, 200, 300}

\* [c for c in contracts if c.get("instrument_type") == opt_type]
Subset(cs, opt_type) == SelectSeq(cs, LAMBDA c : c.instrument_type = opt_type)

\* sorted(S) for a set of integers
RECURSIVE Sorted(_)
Sorted(S) ==
    IF S = {} THEN <<>>
    ELSE LET m == SetMin(S) IN <<m>> \o Sorted(S \ {m})

\* sorted({int(c["strike_price"]) for c in subset})
Strikes(subset) == Sorted({ PyInt(subset[i].strike_price) : i \in 1..Len(subset) })

Abs(x) == IF x < 0 THEN -x ELSE x

\* AtmIdx taking the last nearest strike instead of the first
AtmIdxLast(strikes, atm) ==
    CHOOSE i \in 0..(Len(strikes) - 1) :
        /\ \A j \in 0..(Len(strikes) - 1) :
              Abs(strikes[i + 1] - atm) <= Abs(strikes[j + 1] - atm)
        /\ \A j \in (i + 1)..(Len(strikes) - 1) :
              Abs(strikes[j + 1] - atm) > Abs(strikes[i + 1] - atm)

\* min(range(len(strikes)), key=lambda i: abs(strikes[i] - atm_strike)):
\* the first index of minimal distance
AtmIdx(strikes, atm) ==
    CHOOSE i \in 0..(Len(strikes) - 1) :
        /\ \A j \in 0..(Len(strikes) - 1) :
              Abs(strikes[i + 1] - atm) <= Abs(strikes[j + 1] - atm)
        /\ \A j \in 0..(i - 1) :
              Abs(strikes[j + 1] - atm) > Abs(strikes[i + 1] - atm)

\* WindowStart without the clip at 0
WindowStartUnclipped(idx, n) == idx - n

\* start = max(0, atm_idx - strikes_each_side)
WindowStart(idx, n) == Max2(0, idx - n)

\* WindowEnd reaching one strike too far
WindowEndOneMore(len, idx, n) == Min2(len - 1, idx + n + 1)

\* end = min(len(strikes) - 1, atm_idx + strikes_each_side)
WindowEnd(len, idx, n) == Min2(len - 1, idx + n)

\* Python's s[start:stop]: a negative index counts from the end
PyIndex(len, i) == IF i < 0 THEN Max2(len + i, 0) ELSE Min2(i, len)
PySlice(s, start, stop) ==
    SubSeq(s, PyIndex(Len(s), start) + 1, PyIndex(Len(s), stop))

\* the first record of subset with int(c["strike_price"]) == s
FirstMatch(subset, s) ==
    subset[CHOOSE i \in 1..Len(subset) :
               /\ PyInt(subset[i].strike_price) = s
               /\ \A j \in 1..(i - 1) : PyInt(subset[j].strike_price) # s]

Pair(c) == <<c.instrument_key, c.trading_symbol>>

\* one iteration of `for opt_type in ("CE", "PE")`
PickType(cs, opt_type, atm, n) ==
    LET subset  == Subset(cs, opt_type)
        strikes == Strikes(subset)
        idx     == AtmIdx(strikes, atm)
        start   == WindowStart(idx, n)
        end     == WindowEnd(Len(strikes), idx, n)
        ch      == PySlice(strikes, start, end + 1)
    IN  IF subset = <<>> THEN [atm_idx |-> -1, chosen |-> <<>>, pairs |-> <<>>]
        ELSE [atm_idx |-> idx,
              chosen  |-> ch,
              pairs   |-> [k \in 1..Len(ch) |-> Pair(FirstMatch(subset, ch[k]))]]

ReturnNone == [kind |-> "None"]
ReturnList(items) == [kind |-> "list", items |-> items]

\* the loop of pick_atm_plus_minus and its final `return`, which names no
\* value: the caller gets None
PickAtmPlusMinus(cs, atm, n) ==
    LET ce == PickType(cs, OptTypes[1], atm, n)
        pe == PickType(cs, OptTypes[2], atm, n)
    IN  [atm_idx |-> [t \in {"CE", "PE"} |-> IF t = "CE" THEN ce.atm_idx ELSE pe.atm_idx],
         chosen  |-> [t \in {"CE", "PE"} |-> IF t = "CE" THEN ce.chosen ELSE pe.chosen],
         results |-> ce.pairs \o pe.pairs,
         ret     |-> ReturnNone]

SelIdle ==
    /\ contracts = <<>>
    /\ sel_pc = "input"
    /\ atm_strike = 0
    /\ strikes_each_side = 0
    /\ atm_idx = [t \in {"CE", "PE"} |-> -1]
    /\ chosen = [t \in {"CE", "PE"} |-> <<>>]
    /\ results = <<>>
    /\ sel_ret = ReturnNone

\* get_option_contracts delivers one more record of the list
ReceiveContract ==
    /\ sel_pc = "input"
    /\ Len(contracts) < MaxContracts
    /\ \E k \in ContractKinds :
          contracts' = Append(contracts, Contract(k, Len(contracts) + 1))
    /\ UNCHANGED <<sel_pc, atm_strike, strikes_each_side, atm_idx, chosen, results, sel_ret>>
    /\ UNCHANGED <<mpVars, fqVars, engVars>>

\* pick_atm_plus_minus(contracts, atm, n)
CallPickAtmPlusMinus ==
    /\ sel_pc = "input"
    /\ \E atm \in AtmStrikes, n \in 0..MaxSide :
          LET r == PickAtmPlusMinus(contracts, atm, n)
          IN  /\ atm_strike' = atm
              /\ strikes_each_side' = n
              /\ atm_idx' = r.atm_idx
              /\ chosen' = r.chosen
              /\ results' = r.results
              /\ sel_ret' = r.ret
    /\ sel_pc' = "done"
    /\ UNCHANGED contracts
    /\ UNCHANGED <<mpVars, fqVars, engVars>>

\* ------------------------------------------------------------------------
\* fetch_quotes
\* ------------------------------------------------------------------------

\* A JSON value as the code reads it: null (or a missing key, which .get()
\* turns into None), a number, a string that float() parses to a number, a
\* string that float() rejects.
JNull     == <<"null">>
JNum(x)   == <<"num", x>>
JStr(x)   == <<"str", x>>
JBad      == <<"bad">>

InstrumentKeys == {"NSE_FO|1", "NSE_FO|2", "NSE_FO|3"}

\* The per-instrument entries of "data": null, or an object with its
\* last_price, its ohlc.close (null when ohlc is missing, null or without a
\* close) and its volume.
Quote(last_price, close, volume) ==
    [null |-> FALSE, last_price |-> last_price, close |-> close, volume |-> volume]

NullQuote == [null |-> TRUE, last_price |-> JNull, close |-> JNull, volume |-> JNull]

QuoteEntries ==
    { NullQuote,
      Quote(JNum(100), JNull, JNum(5)),
      Quote(JNum(100), JNum(90), JNull),
      Quote(JNull, JNum(90), JNum(5)),
      Quote(JNull, JNull, JNum(5)),
      Quote(JStr(100), JNull, JStr(5)),
      Quote(JBad, JNull, JNum(5)),
      Quote(JNum(100), JNull, JBad),
      Quote(JNull, JNull, JBad) }

\* The shapes of an answer: requests.get or r.json() raising; a JSON body that
\* is no object; an object without "status"; a status other than "success";
\* a success whose "data" is null; a success without "data"; a success with
\* the "data" object.
Shapes == {"transport_error", "not_object", "no_status", "error_status",
           "success_data_null", "success_no_data", "success"}

FqRaise == [kind |-> "raise", items |-> {}]
FqDict(items) == [kind |-> "dict", items |-> items]

\* float(x): defined for a number and for a numeric string
FloatRaises(j) == j = JBad \/ j = JNull
Float(j) == j[2]

\* ltp = q.get("last_price"); if ltp is None: ltp = (q.get("ohlc") or {}).get("close")
Ltp(q) == IF q.last_price = JNull THEN q.close ELSE q.last_price

\* float(vol or 0): None is taken as 0
VolRaises(q) == q.volume = JBad
Vol(q) == IF q.volume = JNull THEN 0 ELSE Float(q.volume)

\* one iteration of `for key, q in data.items()`: whether it raises
EntryRaises(q) ==
    \/ q.null
    \/ Ltp(q) # JNull /\ (FloatRaises(Ltp(q)) \/ VolRaises(q))

\* out[key] = (float(ltp), float(vol or 0)) for the entries with a price
EntryItems(data) ==
    { [key |-> data[i].key, ltp |-> Float(Ltp(data[i].q)), vol |-> Vol(data[i].q)] :
        i \in { j \in 1..Len(data) : Ltp(data[j].q) # JNull } }

FetchQuotes(keys, shape, data) ==
    IF keys = {} THEN FqDict({})
    ELSE IF shape = "transport_error" THEN FqDict({})
    ELSE IF shape = "not_object" THEN FqRaise
    ELSE IF shape \in {"no_status", "error_status"} THEN FqDict({})
    ELSE IF shape = "success_data_null" THEN FqRaise
    ELSE IF shape = "success_no_data" THEN FqDict({})
    ELSE IF \E i \in 1..Len(data) : EntryRaises(data[i].q) THEN FqRaise
    ELSE FqDict(EntryItems(data))

FqIdle ==
    /\ fq_keys = {}
    /\ fq_data = <<>>
    /\ fq_shape = "success"
    /\ fq_pc = "input"
    /\ fq_ret = FqDict({})

\* the upstream puts one more instrument into the "data" object of its answer
UpstreamQuotes ==
    /\ fq_pc = "input"
    /\ Len(fq_data) < MaxQuotes
    /\ \E k \in InstrumentKeys, q \in QuoteEntries :
          /\ \A i \in 1..Len(fq_data) : fq_data[i].key # k
          /\ fq_data' = Append(fq_data, [key |-> k, q |-> q])
    /\ UNCHANGED <<fq_keys, fq_shape, fq_pc, fq_ret>>
    /\ UNCHANGED <<mpVars, selVars, engVars>>

\* fetch_quotes(instrument_keys)
CallFetchQuotes ==
    /\ fq_pc = "input"
    /\ \E keys \in SUBSET InstrumentKeys, shape \in Shapes :
          /\ shape # "success" => fq_data = <<>>
          /\ fq_keys' = keys
          /\ fq_shape' = shape
          /\ fq_ret' = FetchQuotes(keys, shape, fq_data)
    /\ fq_pc' = "done"
    /\ UNCHANGED fq_data
    /\ UNCHANGED <<mpVars, selVars, engVars>>

\* ------------------------------------------------------------------------
\* Signal Engine and Alert Sink (option instruments): the HFT footprint, the
\* gamma blast that may follow it, and the cooldown of the alerts
\* ------------------------------------------------------------------------

Options == {"OPT1", "OPT2"}
Kinds   == {"HFT", "GAMMA"}

\* the intervals between two polling cycles: 0.3 s, 15 s, 89.7 s
Intervals == {30, 1500, 8970}

\* the prices a tick carries: 1001 is 0.1% above 1000, 1020 is 2% above it
Prices == {1000, 1001, 1020}

\* |a - b| as a share of b, compared in hundredths of a percent
MoveBelow(a, b, pct_x100) == Abs(a - b) * 10000 < pct_x100 * b
MoveAbove(a, b, pct_x100) == Abs(a - b) * 10000 > pct_x100 * b

\* HFT footprint: a fast tick, a volume delta above HFT_VOLUME_MULTIPLIER
\* times the baseline (`burst`), and a small price change
HftFootprint(dt, burst, prev, price) ==
    /\ dt < MIN_TICK_INTERVAL_CS
    /\ burst
    /\ MoveBelow(price, prev, PRICE_MOVE_SMALL_PCT_X100)

\* Recent ignoring the window: any footprint recorded at all counts
RecentAlways(t, at) == TRUE

\* a footprint recorded at `at` is recent at time t
Recent(t, at) == t - at <= RECENT_HFT_SEC * 100

\* CooledDown with no cooldown at all
CooledDownAlways(t, last) == TRUE

\* the Alert Sink's cooldown check against AlertState
CooledDown(t, last) == last = None \/ t - Value(last) >= ALERT_COOLDOWN_SEC * 100

\* one tick of one option instrument at time t: its state before the tick
\* (st, at, base), and after it, with the signals that fired
EngineTick(t, dt, st, at, base, prev, price, burst) ==
    LET armed == st = "ARMED" /\ Recent(t, Value(at))
        gamma == armed /\ MoveAbove(price, Value(base), PRICE_MOVE_GAMMA_PCT_X100)
        hft   == HftFootprint(dt, burst, prev, price)
    IN  [fired |-> (IF gamma THEN {"GAMMA"} ELSE {}) \cup (IF hft THEN {"HFT"} ELSE {}),
         st    |-> IF hft THEN "ARMED"
                   ELSE IF armed /\ ~gamma THEN "ARMED" ELSE "NORMAL",
         at    |-> IF hft THEN Some(t)
                   ELSE IF armed /\ ~gamma THEN at ELSE None,
         base  |-> IF hft THEN Some(price)
                   ELSE IF armed /\ ~gamma THEN base ELSE None]

EngIdle ==
    /\ now = 0
    /\ polls = 0
    /\ tick_price = [i \in Options |-> 1000]
    /\ eng_state = [i \in Options |-> "NORMAL"]
    /\ hft_time = [i \in Options |-> None]
    /\ base_price = [i \in Options |-> None]
    /\ last_alert = [i \in Options |-> [k \in Kinds |-> None]]
    /\ fired = {}
    /\ dispatched = {}

\* one cycle of the polling loop: after dt a quote of every option instrument
\* is pushed into the engine, and the alerts of the signals that fire go
\* through the Alert Sink
PollCycle ==
    /\ polls < MaxPolls
    /\ \E dt \in Intervals, price \in [Options -> Prices], burst \in [Options -> BOOLEAN] :
          LET t == now + dt
              r == [i \in Options |->
                       EngineTick(t, dt, eng_state[i], hft_time[i], base_price[i],
                                  tick_price[i], price[i], burst[i])]
              f == { <<i, k>> \in Options \X Kinds : k \in r[i].fired }
              d == { e \in f : CooledDown(t, last_alert[e[1]][e[2]]) }
          IN  /\ now' = t
              /\ tick_price' = price
              /\ eng_state' = [i \in Options |-> r[i].st]
              /\ hft_time' = [i \in Options |-> r[i].at]
              /\ base_price' = [i \in Options |-> r[i].base]
              /\ fired' = f
              /\ dispatched' = d
              /\ last_alert' = [i \in Options |-> [k \in Kinds |->
                                    IF <<i, k>> \in d THEN Some(t) ELSE last_alert[i][k]]]
    /\ polls' = polls + 1
    /\ UNCHANGED <<mpVars, selVars, fqVars>>

\* ------------------------------------------------------------------------
\* Specifications: one per component, the other components idle
\* ------------------------------------------------------------------------

Init == MPIdle /\ SelIdle /\ FqIdle /\ EngIdle

MPNext == ReceiveCandle \/ CallBuildMarketProfile

SpecProfile == Init /\ [][MPNext]_vars

SelNext == ReceiveContract \/ CallPickAtmPlusMinus

SpecSelector == Init /\ [][SelNext]_vars

FqNext == UpstreamQuotes \/ CallFetchQuotes

SpecQuotes == Init /\ [][FqNext]_vars

EngNext == PollCycle

SpecEngine == Init /\ [][EngNext]_vars

\* ------------------------------------------------------------------------
\* Properties of build_market_profile
\* ------------------------------------------------------------------------

\* the rows of a batch the builder aggregates: six fields, a close that is set
Aggregated(cs) == { i \in 1..Len(cs) : cs[i].len = 6 /\ cs[i].close # None }

RECURSIVE SumVol(_, _)
SumVol(cs, I) ==
    IF I = {} THEN 0
    ELSE LET i == CHOOSE i \in I : TRUE IN cs[i].vol + SumVol(cs, I \ {i})

\* the volume a batch accumulates
AccumulatedVolume(cs) == SumVol(cs, Aggregated(cs))

\* no row of the batch has more fields than a candle has
NoLongRow(cs) == \A i \in 1..Len(cs) : cs[i].len <= 6

\* the volume the batch puts into bucket `price`
BucketVolume(cs, price) ==
    SumVol(cs, { i \in Aggregated(cs) : Bucket(Value(cs[i].close), PRICE_BUCKET_SIZE) = price })

RECURSIVE SumBuckets(_, _)
SumBuckets(cs, P) ==
    IF P = {} THEN 0
    ELSE LET q == CHOOSE q \in P : TRUE IN BucketVolume(cs, q) + SumBuckets(cs, P \ {q})

SmallestBucketVolume(cs, P) ==
    SetMin({ BucketVolume(cs, q) : q \in P })

\* the batch with its short rows removed
RECURSIVE WithoutShortRows(_)
WithoutShortRows(cs) ==
    IF cs = <<>> THEN <<>>
    ELSE IF Head(cs).len < 6 THEN WithoutShortRows(Tail(cs))
    ELSE <<Head(cs)>> \o WithoutShortRows(Tail(cs))

\* C1: for a non-empty batch of candle rows whose accumulated volume is
\* positive, build_market_profile returns a profile, its POC is one of the
\* accepted value-area buckets, and val <= poc <= vah.
C1_PocInsideValueArea ==
    (mp_pc = "done" /\ NoLongRow(candles) /\ candles # <<>>
                    /\ AccumulatedVolume(candles) > 0)
    => /\ mp.kind = "profile"
       /\ mp.poc \in va_prices
       /\ mp.val <= mp.poc
       /\ mp.poc <= mp.vah

\* C1 witness: a profile was built from four buckets tied for the maximum
\* volume, of which the value area took only a part.
C1_Witness ==
    /\ mp_pc = "done"
    /\ mp.kind = "profile"
    /\ Len(vol_at_price) = 4
    /\ \A i \in 1..4 : vol_at_price[i].vol = vol_at_price[1].vol
    /\ Cardinality(va_prices) = 3
    /\ mp.poc \in va_prices

\* C2: the accepted value-area buckets of a returned profile hold at least
\* 70% of the total volume, and without the smallest of them they hold
\* strictly less than 70%.
C2_ValueAreaMinimalCover ==
    (mp_pc = "done" /\ mp.kind = "profile")
    => /\ va_prices # {}
       /\ mp.vah = SetMax(va_prices)
       /\ mp.val = SetMin(va_prices)
       /\ 10 * SumBuckets(candles, va_prices) >= 7 * AccumulatedVolume(candles)
       /\ 10 * (SumBuckets(candles, va_prices) - SmallestBucketVolume(candles, va_prices))
             < 7 * AccumulatedVolume(candles)

\* C2 witness: a profile whose value area holds exactly 70% of the volume in
\* two or more buckets and leaves a bucket out.
C2_Witness ==
    /\ mp_pc = "done"
    /\ mp.kind = "profile"
    /\ Cardinality(va_prices) >= 2
    /\ Cardinality(va_prices) < Len(vol_at_price)
    /\ 10 * SumBuckets(candles, va_prices) = 7 * AccumulatedVolume(candles)

\* C3: build_market_profile returns None, and neither raises nor returns a
\* profile, when the batch is empty, every candle has a null close, or the
\* accumulated volume is <= 0; and rows of fewer than 6 fields are skipped
\* one by one: the call returns what it returns for the batch without them.
C3_NoProfileAndShortRowsSkipped ==
    (mp_pc = "done" /\ NoLongRow(candles))
    => /\ (candles = <<>> \/ Aggregated(candles) = {} \/ AccumulatedVolume(candles) <= 0)
            => mp = NoProfile
       /\ mp.kind # "raise"
       /\ mp = BuildMarketProfile(WithoutShortRows(candles), PRICE_BUCKET_SIZE).ret

\* C3 witness: a batch with a short row in it and a positive volume gave a
\* profile, so the rows after the short one were aggregated.
C3_Witness ==
    /\ mp_pc = "done"
    /\ Len(candles) >= 3
    /\ candles[1].len < 6
    /\ mp.kind = "profile"
    /\ Len(vol_at_price) = 2

\* C3 witness for the sentinel: a batch of a short row, a null close and a
\* zero-volume candle gave no profile.
C3_WitnessSentinel ==
    /\ mp_pc = "done"
    /\ mp = NoProfile
    /\ \E i \in 1..Len(candles) : candles[i].len < 6
    /\ \E i \in 1..Len(candles) : candles[i].len = 6 /\ candles[i].close = None
    /\ Aggregated(candles) # {}
    /\ AccumulatedVolume(candles) = 0

\* ------------------------------------------------------------------------
\* Properties of pick_atm_plus_minus
\* ------------------------------------------------------------------------

\* the distinct strikes a contract list offers for an option type
Available(cs, t) ==
    { PyInt(cs[i].strike_price) : i \in { j \in 1..Len(cs) : cs[j].instrument_type = t } }

Distance(x, atm) == IF x >= atm THEN x - atm ELSE atm - x

Elements(seq) == { seq[i] : i \in 1..Len(seq) }

\* the n smallest (largest) numbers of a set, all of them when it has fewer
Lowest(S, n)  == { x \in S : Cardinality({ y \in S : y < x }) < n }
Highest(S, n) == { x \in S : Cardinality({ y \in S : y > x }) < n }

\* C4: for each of CE and PE the call selects at most 2N+1 strikes, in
\* ascending order, forming a contiguous run of the distinct strikes
\* available for that type that contains a strike nearest to the ATM value.
C4_ContiguousWindow ==
    sel_pc = "done" =>
    \A t \in {"CE", "PE"} :
        LET av == Available(contracts, t)
            ch == chosen[t]
        IN  /\ Len(ch) <= 2 * strikes_each_side + 1
            /\ \A i \in 1..(Len(ch) - 1) : ch[i] < ch[i + 1]
            /\ Elements(ch) \subseteq av
            /\ \A x \in av : (ch # <<>> /\ ch[1] <= x /\ x <= ch[Len(ch)])
                                 => x \in Elements(ch)
            /\ av # {} => \E c \in Elements(ch) :
                              \A x \in av : Distance(c, atm_strike) <= Distance(x, atm_strike)

\* C4 witness: four distinct call strikes were available and N = 1 selected
\* three of them.
C4_Witness ==
    /\ sel_pc = "done"
    /\ strikes_each_side = 1
    /\ Cardinality(Available(contracts, "CE")) = 4
    /\ Len(chosen["CE"]) = 3

\* the pairs of the first records matching the strikes ch of type t
ExpectedPairsOf(cs, t, ch) ==
    [k \in 1..Len(ch) |->
        LET i == CHOOSE i \in 1..Len(cs) :
                    /\ cs[i].instrument_type = t
                    /\ PyInt(cs[i].strike_price) = ch[k]
                    /\ \A j \in 1..(i - 1) :
                          ~(cs[j].instrument_type = t /\ PyInt(cs[j].strike_price) = ch[k])
        IN  <<cs[i].instrument_key, cs[i].trading_symbol>>]

ExpectedPairs ==
    ExpectedPairsOf(contracts, "CE", chosen["CE"])
    \o ExpectedPairsOf(contracts, "PE", chosen["PE"])

\* C5: called on a non-empty contract list, pick_atm_plus_minus returns to
\* its caller the sequence of (instrument_key, trading_symbol) pairs of the
\* first record matching each selected strike, calls before puts, strikes
\* ascending within each type.
C5_ReturnsPairs ==
    (sel_pc = "done" /\ contracts # <<>>)
    => sel_ret = ReturnList(ExpectedPairs)

\* The list the call builds is the one C5 describes; it is the return that
\* does not hand it over.
C5_ResultsBuilt ==
    sel_pc = "done" => results = ExpectedPairs

\* C6: when the ATM value lies above the highest or below the lowest strike
\* available for a type, the selection for that type is the nearest edge
\* strike and the N strikes next to it on the inward side (all there are
\* when fewer exist), and nothing else.
C6_ClippedAtEdge ==
    sel_pc = "done" =>
    \A t \in {"CE", "PE"} :
        LET av == Available(contracts, t)
        IN  av # {} =>
            /\ atm_strike > SetMax(av)
                  => Elements(chosen[t]) = Highest(av, strikes_each_side + 1)
            /\ atm_strike < SetMin(av)
                  => Elements(chosen[t]) = Lowest(av, strikes_each_side + 1)

\* C6 witness: the ATM value was below every available call strike and above
\* every available put strike, with more strikes available than the window
\* takes on one side.
C6_Witness ==
    /\ sel_pc = "done"
    /\ Available(contracts, "CE") # {}
    /\ Available(contracts, "PE") # {}
    /\ atm_strike < SetMin(Available(contracts, "CE"))
    /\ atm_strike > SetMax(Available(contracts, "PE"))
    /\ Cardinality(Available(contracts, "CE")) > strikes_each_side + 1
    /\ Len(chosen["CE"]) = strikes_each_side + 1
    /\ Len(chosen["PE"]) = 1

\* C10: the centre of the window is a strike of smallest distance to the
\* ATM value, and of two strikes at that distance it is the lower.
C10_CentreNearestLower ==
    sel_pc = "done" =>
    \A t \in {"CE", "PE"} :
        LET av == Available(contracts, t)
        IN  av # {} =>
            LET c == Sorted(av)[atm_idx[t] + 1]
            IN  /\ atm_idx[t] \in 0..(Cardinality(av) - 1)
                /\ \A x \in av :
                      /\ Distance(c, atm_strike) <= Distance(x, atm_strike)
                      /\ Distance(x, atm_strike) = Distance(c, atm_strike) => c <= x

\* C10 witness: two call strikes were equally near the ATM value and the
\* lower one became the centre.
C10_Witness ==
    /\ sel_pc = "done"
    /\ \E x, y \in Available(contracts, "CE") :
          /\ x < y
          /\ atm_strike - x = y - atm_strike
          /\ \A z \in Available(contracts, "CE") :
                Distance(z, atm_strike) >= y - atm_strike
          /\ Sorted(Available(contracts, "CE"))[atm_idx["CE"] + 1] = x

\* ------------------------------------------------------------------------
\* Properties of fetch_quotes
\* ------------------------------------------------------------------------

\* an entry the upstream reported with a usable price and volume
Usable(q) ==
    /\ ~q.null
    /\ Ltp(q)[1] \in {"num", "str"}
    /\ q.volume[1] \in {"null", "num", "str"}

\* C7: fetch_quotes never raises; on a transport failure, a status that is
\* not "success" or an answer of unexpected shape it returns the empty
\* mapping; on success it returns exactly the instruments reported with a
\* usable price.
C7_NeverRaises ==
    fq_pc = "done" =>
        /\ fq_ret.kind = "dict"
        /\ fq_shape # "success" => fq_ret.items = {}
        /\ { e.key : e \in fq_ret.items }
             \subseteq { fq_data[i].key : i \in { j \in 1..Len(fq_data) : Usable(fq_data[j].q) } }

\* What the code does keep of C7: when the body is an object and, on
\* success, "data" is an object whose entries are objects with numeric
\* prices and volumes, the call returns a mapping holding exactly the
\* instruments that have a price.
C7_WellShapedAnswers ==
    (/\ fq_pc = "done"
     /\ fq_shape \notin {"not_object", "success_data_null"}
     /\ \A i \in 1..Len(fq_data) :
           LET q == fq_data[i].q
           IN  ~q.null /\ q.last_price # JBad /\ q.close # JBad /\ q.volume # JBad)
    => /\ fq_ret.kind = "dict"
       /\ fq_shape # "success" => fq_ret.items = {}
       /\ (fq_shape = "success" /\ fq_keys # {}) =>
             { e.key : e \in fq_ret.items }
               = { fq_data[i].key : i \in { j \in 1..Len(fq_data) : Ltp(fq_data[j].q) # JNull } }

\* ------------------------------------------------------------------------
\* Properties of the Signal Engine and the Alert Sink
\* ------------------------------------------------------------------------

\* C8: an alert of a kind on an instrument is dispatched only when the signal
\* fired and no alert of that kind on that instrument was dispatched less
\* than ALERT_COOLDOWN_SEC before; a firing within the cooldown is
\* suppressed; a firing with the cooldown elapsed is dispatched, whatever
\* the other instruments and kinds did; AlertState keeps the time of the
\* last dispatch.
C8_Cooldown ==
    [][\A i \in Options, k \in Kinds :
         LET e    == <<i, k>>
             last == last_alert[i][k]
             cool == last = None \/ now' - Value(last) >= 90 * 100
         IN  /\ e \in dispatched' => (e \in fired' /\ cool)
             /\ (e \in fired' /\ ~cool) => e \notin dispatched'
             /\ (e \in fired' /\ cool) => e \in dispatched'
             /\ last_alert'[i][k] = IF e \in dispatched' THEN Some(now') ELSE last
      ]_vars

\* C8 witness: an HFT alert on OPT1 was suppressed by its cooldown in the
\* cycle in which the HFT alert on OPT2 and no other was dispatched.
C8_Witness ==
    /\ <<"OPT1", "HFT">> \in fired
    /\ <<"OPT1", "HFT">> \notin dispatched
    /\ last_alert["OPT1"]["HFT"] # None
    /\ now - Value(last_alert["OPT1"]["HFT"]) < 90 * 100
    /\ dispatched = {<<"OPT2", "HFT">>}

\* C9: a gamma blast fires on an instrument only when that instrument was
\* ARMED by an HFT footprint recorded at most RECENT_HFT_SEC earlier and the
\* price is more than PRICE_MOVE_GAMMA_PCT away from the base price recorded
\* with the footprint; having fired, the instrument is NORMAL again unless
\* the same tick is a new footprint; and an instrument is never ARMED more
\* than RECENT_HFT_SEC after its footprint.
C9_GammaAfterFootprint ==
    [][\A i \in Options :
         /\ <<i, "GAMMA">> \in fired' =>
               /\ eng_state[i] = "ARMED"
               /\ hft_time[i] # None
               /\ now' - Value(hft_time[i]) <= 30 * 100
               /\ Abs(tick_price'[i] - Value(base_price[i])) * 100 > 1 * Value(base_price[i])
         /\ (<<i, "GAMMA">> \in fired' /\ <<i, "HFT">> \notin fired')
               => eng_state'[i] = "NORMAL"
         /\ eng_state'[i] = "ARMED" =>
               /\ hft_time'[i] # None
               /\ now' - Value(hft_time'[i]) <= 30 * 100
         /\ <<i, "HFT">> \in fired' => eng_state'[i] = "ARMED"
      ]_vars

\* C9 witness: a gamma blast fired on OPT1, which is NORMAL again, while OPT2
\* is ARMED and fired none.
C9_Witness ==
    /\ <<"OPT1", "GAMMA">> \in fired
    /\ eng_state["OPT1"] = "NORMAL"
    /\ eng_state["OPT2"] = "ARMED"
    /\ <<"OPT2", "GAMMA">> \notin fired

\* C9, the timeout: OPT1 had a footprint, no gamma blast fired on it, and it
\* is NORMAL again after the window passed.
C9_WitnessTimeout ==
    /\ last_alert["OPT1"]["HFT"] # None
    /\ last_alert["OPT1"]["GAMMA"] = None
    /\ now - Value(last_alert["OPT1"]["HFT"]) > 30 * 100
    /\ eng_state["OPT1"] = "NORMAL"
    /\ hft_time["OPT1"] = None

====
